---- MODULE Spec2Model ----
(***************************************************************************)
(* NutriScan assessment engine.                                            *)
(*                                                                         *)
(*   Spec      app/predict/model.py: the lazily initialised centroid cache *)
(*             and predict_nail / predict_skin, called from several        *)
(*             threads.                                                    *)
(*   SpecRisk  app/predict/who_standards.py: calculate_risk_score          *)
(*             and generate_recommendations.                               *)
(*   SpecWHO   app/predict/who_standards.py:                               *)
(*             calculate_bmi_percentile_and_zscore and get_bmi_category.   *)
(*   SpecLLM   app/predict/llm_provider.py: generate_chat_response.        *)
(*   SpecChat  app/predict/chatbot.py: MalnutritionChatbot.                *)
(*                                                                         *)
(* Units.  A confidence is an integer number of thousandths (0.75 is 750). *)
(* A feature vector is one integer coordinate counted in units of the      *)
(* temperature of _nearest_centroid (100.0), so that a distance d stands   *)
(* for the Euclidean distance 100*d.  A BMI is in tenths, an age in tenths *)
(* of a year, a z-score in hundredths; a percentile is a fraction pn / pd.  *)
(***************************************************************************)
EXTENDS Integers, Sequences, FiniteSets, TLC

VARIABLES
    dataset,                \* Datasets/training_set: class -> the image files of its directory
    nailMap,                \* _nail_class_to_centroid
    skinMap,                \* _skin_class_to_centroid
    useHeuristicFallback,   \* _use_heuristic_fallback
    extractorsLoaded,       \* _vgg16_feature_extractor / _resnet_feature_extractor are set
    initLock,               \* _init_lock: the set of threads holding it (empty or one)
    pc,                     \* thread -> its position in predict_nail / predict_skin
    computeCount,           \* how many times _compute_centroids has been entered
    loadFailures,           \* how many times _load_feature_extractors has raised
    lastReturn,             \* the outcome of the call of predict_* that ended last
    riskIn,                 \* the arguments of calculate_risk_score
    riskOut,                \* its result
    recOut,                 \* the result of generate_recommendations
    whoIn,                  \* the arguments of calculate_bmi_percentile_and_zscore
    whoOut,                 \* its result
    whoPrev,                \* the bmi and the result of the call before that one
    catOut,                 \* the result of get_bmi_category
    routeOut,               \* bmi_percentile, bmi_z_score, bmi_category as predict() records them
    llmIn,                  \* the arguments and environment of generate_chat_response
    llmOut,                 \* its result
    conversation_history,   \* MalnutritionChatbot.conversation_history
    user_context,           \* MalnutritionChatbot.user_context
    chatOut                 \* the arguments and response of the last process_message

classifierVars == <<dataset, nailMap, skinMap, useHeuristicFallback, extractorsLoaded,
                    initLock, pc, computeCount, loadFailures, lastReturn>>
riskVars == <<riskIn, riskOut, recOut>>
whoVars == <<whoIn, whoOut, whoPrev, catOut, routeOut>>
llmVars == <<llmIn, llmOut>>
chatVars == <<conversation_history, user_context, chatOut>>
vars == <<dataset, nailMap, skinMap, useHeuristicFallback, extractorsLoaded,
          initLock, pc, computeCount, loadFailures, lastReturn,
          riskIn, riskOut, recOut, whoIn, whoOut, whoPrev, catOut,
          llmIn, llmOut, conversation_history, user_context, chatOut>>

(***************************************************************************)
(* Bounds of the model.                                                    *)
(***************************************************************************)
NumThreads == 2
MaxLoadFailures == 1
MaxHistory == 4

Threads == 1..NumThreads

(***************************************************************************)
(* app/predict/model.py                                                    *)
(***************************************************************************)
NAIL_CLASSES == <<"healthy_nails", "unhealthy_nails">>
SKIN_CLASSES == <<"healthy_skin", "unhealthy_skin">>
Classes == {"healthy_nails", "unhealthy_nails", "healthy_skin", "unhealthy_skin"}
Parts == {"nail", "skin"}
PartClasses(p) == IF p = "nail" THEN NAIL_CLASSES ELSE SKIN_CLASSES

\* Python's None for a map or a centroid; a centroid that exists is <<coordinate>>.
None == <<>>
\* A floating-point NaN coordinate or distance, and the float('inf') of best_dist.
NaN == 0 - 1
Inf == 0 - 2

Abs(x) == IF x < 0 THEN 0 - x ELSE x

RECURSIVE SeqSum(_)
SeqSum(s) == IF s = <<>> THEN 0 ELSE Head(s) + SeqSum(Tail(s))

\* The i-th file of the directory of class c: <<feature>> when the file can be read
\* and its features extracted, None when either step raises (the loop's except: continue).
RefFile(c, i) ==
    LET base == CASE c = "healthy_nails" -> 1
                  [] c = "unhealthy_nails" -> 3
                  [] c = "healthy_skin" -> 0
                  [] OTHER -> 4
    IN  IF i % 3 = 0 THEN None
        ELSE IF c \in {"healthy_nails", "healthy_skin"} THEN <<base + 2 * (i - 1)>>
        ELSE <<Abs(base - 2 * (i - 1))>>

\* The first n files of the directory of class c.
Listing(c, n) == [i \in 1..n |-> RefFile(c, i)]

\* The training sets the model starts from: every class directory is absent (or
\* empty) or holds one file, independently; or every one holds four files, of which
\* the third cannot be read.
Datasets ==
    {[c \in Classes |-> Listing(c, n[c])] : n \in [Classes -> {0, 1}]}
    \cup {[c \in Classes |-> Listing(c, 4)]}

\* The features collected for one class: the files that did not raise.
CollectFeatures(files) ==
    LET good == SelectSeq(files, LAMBDA f : f # None)
    IN  [i \in 1..Len(good) |-> good[i][1]]

\* np.mean(v, axis=0) if len(v) > 0 else None, on the feature grid.
MeanCentroid(v) ==
    IF Len(v) = 0 THEN None
    ELSE IF \E i \in 1..Len(v) : v[i] = NaN THEN <<NaN>>
    ELSE <<SeqSum(v) \div Len(v)>>

\* The map _compute_centroids builds for the classes of one body part.
CentroidMap(classes) == [i \in 1..Len(classes) |-> MeanCentroid(CollectFeatures(dataset[classes[i]]))]

NoCentroids(m) == \A i \in 1..Len(m) : m[i] = None

\* _has_valid_centroids
HasValidCentroids(m) == \E i \in 1..Len(m) : m[i] # None

\* _use_heuristic_fallback as the last line of _compute_centroids sets it.
FallbackFlag(nm, sm) == NoCentroids(nm) \/ NoCentroids(sm)

\* The images a caller may pass: decodable or not, the average saturation and value
\* of its HSV form, the feature the extractor returns for it, and whether the
\* extractor's predict() works on it.
SatLevels == {40, 50, 130}
ValLevels == {80, 100, 170}
QueryFeatures == {0, 2, 4, NaN}
ImageSet ==
    {i \in [dec : {TRUE}, sat : SatLevels, val : ValLevels, feat : QueryFeatures, xok : {TRUE}] :
        \/ i.feat = 0 /\ <<i.sat, i.val>> \in {<<40, 80>>, <<50, 100>>, <<130, 170>>, <<130, 100>>}
        \/ i.sat = 50 /\ i.val = 100}
    \cup {[dec |-> FALSE, sat |-> 0, val |-> 0, feat |-> 0, xok |-> TRUE],
          [dec |-> TRUE, sat |-> 50, val |-> 100, feat |-> 0, xok |-> FALSE]}

\* Mutant of SimpleHsvHeuristic: a markedly low channel is given 0.9.
SimpleHsvHeuristicOverconfident(img) ==
    IF ~img.dec THEN <<"healthy", 500>>
    ELSE IF img.sat < 60 /\ img.val < 110
         THEN <<"unhealthy", IF img.sat < 45 \/ img.val < 90 THEN 900 ELSE 700>>
    ELSE IF img.sat > 120 /\ img.val > 160 THEN <<"healthy", 750>>
    ELSE <<"healthy", 600>>

\* _simple_hsv_heuristic: <<label, confidence>>
SimpleHsvHeuristic(img) ==
    IF ~img.dec THEN <<"healthy", 500>>
    ELSE IF img.sat < 60 /\ img.val < 110
         THEN <<"unhealthy", IF img.sat < 45 \/ img.val < 90 THEN 800 ELSE 700>>
    ELSE IF img.sat > 120 /\ img.val > 160 THEN <<"healthy", 750>>
    ELSE <<"healthy", 600>>

\* np.linalg.norm(feature - centroid)
Distance(f, c) == IF f = NaN \/ c = NaN THEN NaN ELSE Abs(f - c)

\* dist < best_dist, with best_dist starting at float('inf'); NaN compares false.
DistLess(d, best) == d # NaN /\ (best = Inf \/ d < best)

\* exp(-d) in thousandths, d being the distance over the temperature.
ExpTable == <<368, 135, 50, 18, 7, 2, 1>>
ExpMilli(d) == IF d = 0 THEN 1000 ELSE IF d <= Len(ExpTable) THEN ExpTable[d] ELSE 0

Max(a, b) == IF a >= b THEN a ELSE b
Min(a, b) == IF a <= b THEN a ELSE b

\* The loop of _nearest_centroid over the first n items of the map:
\* <<index of best_class (0 for None), best_dist>>.
RECURSIVE NearestScan(_, _, _)
NearestScan(f, m, n) ==
    IF n = 0 THEN <<0, Inf>>
    ELSE LET prev == NearestScan(f, m, n - 1)
         IN  IF m[n] = None THEN prev
             ELSE LET dist == Distance(f, m[n][1])
                  IN  IF DistLess(dist, prev[2]) THEN <<n, dist>> ELSE prev

\* Mutant of CentroidConfidence: the clamp to [0.05, 0.99] is left out.
CentroidConfidenceUnclamped(best) ==
    IF best # Inf /\ best # NaN THEN ExpMilli(best) ELSE 500

\* max(0.05, min(0.99, scaled)) when best_dist is finite, 0.5 otherwise.
CentroidConfidence(best) ==
    IF best # Inf /\ best # NaN THEN Max(50, Min(990, ExpMilli(best))) ELSE 500

\* _nearest_centroid: <<label, confidence>>
NearestCentroid(f, m, classes) ==
    LET scan == NearestScan(f, m, Len(m))
    IN  <<IF scan[1] # 0 THEN classes[scan[1]] ELSE classes[1], CentroidConfidence(scan[2])>>

PartMap(p) == IF p = "nail" THEN nailMap ELSE skinMap

\* The test at the head of predict_nail / predict_skin.
TakesHeuristic(p) == useHeuristicFallback \/ ~HasValidCentroids(PartMap(p))

\* The label predict_* makes of the heuristic's label.
HeuristicLabel(p, h) ==
    IF p = "nail" THEN (IF h = "unhealthy" THEN "unhealthy_nails" ELSE "healthy_nails")
    ELSE (IF h = "unhealthy" THEN "unhealthy_skin" ELSE "healthy_skin")

NoReturn == [status |-> "none", part |-> "nail", img |-> CHOOSE i \in ImageSet : ~i.dec,
             path |-> "none", label |-> "", conf |-> 0, cached |-> FALSE]

\* What predict_nail / predict_skin does after _ensure_initialized has returned.
PredictOutcome(p, img, wasCached) ==
    IF TakesHeuristic(p)
    THEN LET h == SimpleHsvHeuristic(img)
         IN  [status |-> "ok", part |-> p, img |-> img, path |-> "heuristic",
              label |-> HeuristicLabel(p, h[1]), conf |-> h[2], cached |-> wasCached]
    ELSE IF ~img.dec \/ ~img.xok
    THEN [status |-> "raised", part |-> p, img |-> img, path |-> "centroid",
          label |-> "", conf |-> 0, cached |-> wasCached]
    ELSE LET r == NearestCentroid(img.feat, PartMap(p), PartClasses(p))
         IN  [status |-> "ok", part |-> p, img |-> img, path |-> "centroid",
              label |-> r[1], conf |-> r[2], cached |-> wasCached]

\* The threads inside the writes of _compute_centroids (lines 91 to 102).
Writing == {t \in Threads : pc[t] \in {"writeNail", "writeSkin", "writeFlag"}}

\* Both maps are set and nobody is still writing the result of the initialisation.
InitComplete == nailMap # None /\ skinMap # None /\ Writing = {}

ClassifierInit ==
    /\ dataset \in Datasets
    /\ nailMap = None
    /\ skinMap = None
    /\ useHeuristicFallback = FALSE
    /\ extractorsLoaded = FALSE
    /\ initLock = {}
    /\ pc = [t \in Threads |-> "idle"]
    /\ computeCount = 0
    /\ loadFailures = 0
    /\ lastReturn = NoReturn

\* A thread calls predict_nail or predict_skin.
Call(t) ==
    /\ pc[t] = "idle"
    /\ pc' = [pc EXCEPT ![t] = "ensure"]
    /\ UNCHANGED <<dataset, nailMap, skinMap, useHeuristicFallback, extractorsLoaded,
                   initLock, computeCount, loadFailures, lastReturn,
                   riskVars, whoVars, llmVars, chatVars>>

\* _ensure_initialized, the test made without the lock.
EnsureFastPath(t) ==
    /\ pc[t] = "ensure"
    /\ pc' = [pc EXCEPT ![t] = IF nailMap # None /\ skinMap # None THEN "predict" ELSE "acquire"]
    /\ UNCHANGED <<dataset, nailMap, skinMap, useHeuristicFallback, extractorsLoaded,
                   initLock, computeCount, loadFailures, lastReturn,
                   riskVars, whoVars, llmVars, chatVars>>

\* with _init_lock: the thread waits until the lock is free.
AcquireLock(t) ==
    /\ pc[t] = "acquire"
    /\ initLock = {}
    /\ initLock' = {t}
    /\ pc' = [pc EXCEPT ![t] = "locked"]
    /\ UNCHANGED <<dataset, nailMap, skinMap, useHeuristicFallback, extractorsLoaded,
                   computeCount, loadFailures, lastReturn,
                   riskVars, whoVars, llmVars, chatVars>>

\* The test made under the lock; _compute_centroids is entered when a map is None.
SecondCheck(t) ==
    /\ pc[t] = "locked"
    /\ IF nailMap = None \/ skinMap = None
       THEN /\ pc' = [pc EXCEPT ![t] = "load"]
            /\ computeCount' = computeCount + 1
       ELSE /\ pc' = [pc EXCEPT ![t] = "release"]
            /\ UNCHANGED computeCount
    /\ UNCHANGED <<dataset, nailMap, skinMap, useHeuristicFallback, extractorsLoaded,
                   initLock, loadFailures, lastReturn,
                   riskVars, whoVars, llmVars, chatVars>>

\* _load_feature_extractors builds the two networks.
LoadExtractors(t) ==
    /\ pc[t] = "load"
    /\ extractorsLoaded' = TRUE
    /\ pc' = [pc EXCEPT ![t] = "writeNail"]
    /\ UNCHANGED <<dataset, nailMap, skinMap, useHeuristicFallback,
                   initLock, computeCount, loadFailures, lastReturn,
                   riskVars, whoVars, llmVars, chatVars>>

\* _load_feature_extractors raises (the weights cannot be had): the exception leaves
\* _compute_centroids, the with statement releases the lock, and predict_* raises.
LoadExtractorsRaises(t) ==
    /\ pc[t] = "load"
    /\ ~extractorsLoaded
    /\ loadFailures < MaxLoadFailures
    /\ loadFailures' = loadFailures + 1
    /\ initLock' = {}
    /\ \E p \in Parts :
          lastReturn' = [status |-> "raised", part |-> p, img |-> NoReturn.img,
                         path |-> "init", label |-> "", conf |-> 0, cached |-> FALSE]
    /\ pc' = [pc EXCEPT ![t] = "idle"]
    /\ UNCHANGED <<dataset, nailMap, skinMap, useHeuristicFallback, extractorsLoaded,
                   computeCount,
                   riskVars, whoVars, llmVars, chatVars>>

\* _nail_class_to_centroid = {...}
WriteNail(t) ==
    /\ pc[t] = "writeNail"
    /\ nailMap' = CentroidMap(NAIL_CLASSES)
    /\ pc' = [pc EXCEPT ![t] = "writeSkin"]
    /\ UNCHANGED <<dataset, skinMap, useHeuristicFallback, extractorsLoaded,
                   initLock, computeCount, loadFailures, lastReturn,
                   riskVars, whoVars, llmVars, chatVars>>

\* _skin_class_to_centroid = {...}
WriteSkin(t) ==
    /\ pc[t] = "writeSkin"
    /\ skinMap' = CentroidMap(SKIN_CLASSES)
    /\ pc' = [pc EXCEPT ![t] = "writeFlag"]
    /\ UNCHANGED <<dataset, nailMap, useHeuristicFallback, extractorsLoaded,
                   initLock, computeCount, loadFailures, lastReturn,
                   riskVars, whoVars, llmVars, chatVars>>

\* _use_heuristic_fallback = no_nail_centroids or no_skin_centroids
WriteFlag(t) ==
    /\ pc[t] = "writeFlag"
    /\ useHeuristicFallback' = FallbackFlag(nailMap, skinMap)
    /\ pc' = [pc EXCEPT ![t] = "release"]
    /\ UNCHANGED <<dataset, nailMap, skinMap, extractorsLoaded,
                   initLock, computeCount, loadFailures, lastReturn,
                   riskVars, whoVars, llmVars, chatVars>>

\* The with statement ends: the lock is released and _ensure_initialized returns.
ReleaseLock(t) ==
    /\ pc[t] = "release"
    /\ initLock' = initLock \ {t}
    /\ pc' = [pc EXCEPT ![t] = "predict"]
    /\ UNCHANGED <<dataset, nailMap, skinMap, useHeuristicFallback, extractorsLoaded,
                   computeCount, loadFailures, lastReturn,
                   riskVars, whoVars, llmVars, chatVars>>

\* Mutant of PredictWrites: a call switches the shared fallback flag on.
PredictWritesFlag ==
    /\ useHeuristicFallback' = TRUE
    /\ UNCHANGED <<nailMap, skinMap, extractorsLoaded, initLock>>

\* What the body of predict_* writes to the module's globals: nothing.
PredictWrites ==
    UNCHANGED <<nailMap, skinMap, useHeuristicFallback, extractorsLoaded, initLock>>

\* The body of predict_nail / predict_skin after _ensure_initialized.  The two
\* functions run the same code up to here, so the body part and the image file are
\* drawn where they are first read; the call returns or raises.
Predict(t) ==
    /\ pc[t] = "predict"
    /\ \E p \in Parts, img \in ImageSet : lastReturn' = PredictOutcome(p, img, InitComplete)
    /\ PredictWrites
    /\ pc' = [pc EXCEPT ![t] = "idle"]
    /\ UNCHANGED <<dataset, computeCount, loadFailures,
                   riskVars, whoVars, llmVars, chatVars>>

Next ==
    \E t \in Threads :
        \/ Call(t)
        \/ EnsureFastPath(t)
        \/ AcquireLock(t)
        \/ SecondCheck(t)
        \/ LoadExtractors(t)
        \/ LoadExtractorsRaises(t)
        \/ WriteNail(t)
        \/ WriteSkin(t)
        \/ WriteFlag(t)
        \/ ReleaseLock(t)
        \/ Predict(t)

NoRisk == [status |-> "none"]
NoWho == [status |-> "none"]
NoLlm == [status |-> "none"]
NoChat == [status |-> "none"]

\* report_data is None or {}: both are falsy.
NoReport == [present |-> FALSE]

\* The functions of who_standards.py, llm_provider.py and chatbot.py before any call.
RiskIdle == riskIn = NoRisk /\ riskOut = NoRisk /\ recOut = NoRisk
WhoIdle ==
    /\ whoIn = NoWho /\ whoOut = NoWho /\ whoPrev = NoWho /\ catOut = NoWho
    /\ routeOut = NoWho
LlmIdle == llmIn = NoLlm /\ llmOut = NoLlm
ChatIdle == conversation_history = <<>> /\ user_context = NoReport /\ chatOut = NoChat

Init ==
    /\ ClassifierInit
    /\ RiskIdle /\ WhoIdle /\ LlmIdle /\ ChatIdle

\* The classifier before its first call, with an empty training set: the state the
\* specifications of the pure functions leave it in.
ClassifierIdle ==
    /\ dataset = [c \in Classes |-> <<>>]
    /\ nailMap = None
    /\ skinMap = None
    /\ useHeuristicFallback = FALSE
    /\ extractorsLoaded = FALSE
    /\ initLock = {}
    /\ pc = [t \in Threads |-> "idle"]
    /\ computeCount = 0
    /\ loadFailures = 0
    /\ lastReturn = NoReturn

(***************************************************************************)
(* app/predict/who_standards.py: MalnutritionRiskAssessment                *)
(***************************************************************************)
\* int(x) of Python for the quotient n / d, d > 0: truncation towards zero.
TruncDiv(n, d) == IF n >= 0 THEN n \div d ELSE 0 - ((0 - n) \div d)

\* The pairs <<confidence, weight>> for which weight * (1 - confidence) is an integer
\* in exact arithmetic and falls just short of it in binary floating point
\* (1 - 0.8 is 0.19999999999999996), so that int() gives one less in magnitude.
FloatShort ==
    {<<800, 20>>, <<800, 5>>, <<900, 20>>, <<1150, 20>>, <<1200, 20>>, <<1200, 5>>,
     <<1400, 20>>, <<1400, 5>>, <<1650, 20>>, <<2050, 20>>, <<2300, 20>>, <<2550, 20>>}

\* int(weight * (1 - confidence))
ConfidenceTerm(weight, conf) ==
    LET exact == TruncDiv(weight * (1000 - conf), 1000)
    IN  IF <<conf, weight>> \in FloatShort
        THEN (IF exact > 0 THEN exact - 1 ELSE exact + 1)
        ELSE exact

\* 'unhealthy' in label
ContainsUnhealthy(label) == label \in {"unhealthy_skin", "unhealthy_nails", "unhealthy"}

\* Mutant of BmiTerm: the overweight band is tested before the obese band.
BmiTermOverweightFirst(pn, pd) ==
    IF pn < 5 * pd THEN 40
    ELSE IF pn < 10 * pd THEN 30
    ELSE IF pn < 25 * pd THEN 20
    ELSE IF pn >= 85 * pd THEN 25
    ELSE IF pn >= 97 * pd THEN 35
    ELSE 0

\* BMI-based risk; the percentile is the fraction pn / pd.
BmiTerm(pn, pd) ==
    IF pn < 5 * pd THEN 40
    ELSE IF pn < 10 * pd THEN 30
    ELSE IF pn < 25 * pd THEN 20
    ELSE IF pn >= 97 * pd THEN 35
    ELSE IF pn >= 85 * pd THEN 25
    ELSE 0

\* Z-score risk; z in hundredths.
ZScoreTerm(z) ==
    IF Abs(z) > 200 THEN 20
    ELSE IF Abs(z) > 150 THEN 15
    ELSE IF Abs(z) > 100 THEN 10
    ELSE 0

\* Skin or nail health risk.
HealthTerm(label, conf) ==
    IF ContainsUnhealthy(label) THEN ConfidenceTerm(20, conf) ELSE ConfidenceTerm(5, conf)

\* Mutant of AgeAdjusted: an age of exactly 5 still gets the factor 1.2.
AgeAdjustedUpTo5(score, age) ==
    IF age <= 50 THEN TruncDiv(score * 12, 10)
    ELSE IF age > 150 THEN TruncDiv(score * 11, 10)
    ELSE score

\* Age-specific risk adjustment: int(risk_score * 1.2), int(risk_score * 1.1); age in tenths.
AgeAdjusted(score, age) ==
    IF age < 50 THEN TruncDiv(score * 12, 10)
    ELSE IF age > 150 THEN TruncDiv(score * 11, 10)
    ELSE score

\* Cap at 100
CapScore(score) == Min(100, score)

\* Mutant of RiskLevel: High starts at 30.
RiskLevelHighFrom30(score) ==
    IF score < 20 THEN "Low"
    ELSE IF score < 30 THEN "Medium"
    ELSE IF score < 60 THEN "High"
    ELSE "Critical"

\* Mutant of RiskLevel: Critical only above 60.
RiskLevelCriticalAbove60(score) ==
    IF score < 20 THEN "Low"
    ELSE IF score < 40 THEN "Medium"
    ELSE IF score <= 60 THEN "High"
    ELSE "Critical"

RiskLevel(score) ==
    IF score < 20 THEN "Low"
    ELSE IF score < 40 THEN "Medium"
    ELSE IF score < 60 THEN "High"
    ELSE "Critical"

\* calculate_risk_score
CalculateRiskScore(a) ==
    LET sum == BmiTerm(a.pnum, a.pden) + ZScoreTerm(a.z)
               + HealthTerm(a.skin, a.skinConf) + HealthTerm(a.nail, a.nailConf)
        score == CapScore(AgeAdjusted(sum, a.age))
    IN  [status |-> "ok", risk_score |-> score, risk_level |-> RiskLevel(score),
         bmi_risk |-> Min(40, score), z_score_risk |-> Min(20, score),
         skin_risk |-> Min(20, score), nail_risk |-> Min(20, score)]

\* The arguments the scorer is called with: percentiles (in hundredths) around every
\* band edge and outside [0, 100], z-scores (hundredths) around every band edge,
\* confidences (thousandths) inside and outside [0, 1], ages (tenths) around 5 and 15.
RiskPercentiles == {0, 499, 500, 999, 1500, 2500, 5000, 8500, 9699, 9700, 12000}
RiskZScores == {0 - 1000, 0 - 201, 0 - 151, 0 - 120, 0, 100, 200}
RiskConfidences == {0, 500, 700, 800, 990, 1000, 2000}
RiskAges == {20, 49, 50, 80, 150, 151}
RiskInputs ==
    [status : {"args"}, pnum : RiskPercentiles, pden : {100}, z : RiskZScores,
     skin : {"healthy_skin", "unhealthy_skin"}, nail : {"healthy_nails", "unhealthy_nails"},
     skinConf : RiskConfidences, nailConf : RiskConfidences, age : RiskAges]

RiskInit ==
    /\ ClassifierIdle
    /\ riskIn \in RiskInputs /\ riskOut = NoRisk /\ recOut = NoRisk
    /\ WhoIdle /\ LlmIdle /\ ChatIdle

\* The call of calculate_risk_score.
RiskCall ==
    /\ riskIn.status = "args"
    /\ riskOut.status = "none"
    /\ riskOut' = CalculateRiskScore(riskIn)
    /\ UNCHANGED <<classifierVars, riskIn, recOut, whoVars, llmVars, chatVars>>

\* The dietary, lifestyle and hydration texts, named by their first words.
DietaryRecommendations(bmi_category) ==
    IF bmi_category = "Underweight" THEN "Increase caloric intake"
    ELSE IF bmi_category = "Overweight" \/ bmi_category = "Obese" THEN "Focus on portion control"
    ELSE "Maintain balanced nutrition"

LifestyleRecommendations(risk_score) ==
    IF risk_score > 60 THEN "Immediate attention required"
    ELSE IF risk_score > 40 THEN "Moderate lifestyle changes needed"
    ELSE "Maintain healthy habits"

HydrationTips(risk_score) ==
    IF risk_score > 50 THEN "Ensure adequate hydration"
    ELSE "Maintain good hydration habits"

\* Mutant of ProfessionalConsultation: a risk_score of exactly 40 already counts.
ProfessionalConsultationFrom40(risk_score, bmi_category) ==
    risk_score >= 40 \/ bmi_category \in {"Underweight", "Obese"}

\* risk_score > 40 or bmi_category in ["Underweight", "Obese"]
\* Mutant of ProfessionalConsultation: the score refers only above 60.
ProfessionalConsultationAbove60(risk_score, bmi_category) ==
    risk_score > 60 \/ bmi_category \in {"Underweight", "Obese"}

ProfessionalConsultation(risk_score, bmi_category) ==
    risk_score > 40 \/ bmi_category \in {"Underweight", "Obese"}

\* generate_recommendations; the result keeps the two arguments it read.
GenerateRecommendations(risk_assessment, bmi_category) ==
    [status |-> "ok",
     risk_score |-> risk_assessment.risk_score, bmi_category |-> bmi_category,
     dietary_recommendations |-> DietaryRecommendations(bmi_category),
     lifestyle_recommendations |-> LifestyleRecommendations(risk_assessment.risk_score),
     hydration_tips |-> HydrationTips(risk_assessment.risk_score),
     professional_consultation |->
         ProfessionalConsultation(risk_assessment.risk_score, bmi_category)]

\* The categories get_bmi_category returns.
BmiCategories == {"Underweight", "Normal", "Overweight", "Obese"}

\* The call of generate_recommendations on the assessment just computed.
RecommendCall ==
    /\ riskOut.status = "ok"
    /\ recOut.status = "none"
    /\ \E bmi_category \in BmiCategories :
           recOut' = GenerateRecommendations(riskOut, bmi_category)
    /\ UNCHANGED <<classifierVars, riskIn, riskOut, whoVars, llmVars, chatVars>>

RiskNext == RiskCall \/ RecommendCall

SpecRisk == RiskInit /\ [][RiskNext]_vars

(***************************************************************************)
(* app/predict/who_standards.py: WHOStandards                              *)
(***************************************************************************)
\* BMI_REFERENCE_DATA, in tenths; 'ages' is 2..19, so the knot of index i is age i + 1.
BMI_REFERENCE_DATA ==
    [male |->
       <<<<141, 139, 138, 137, 136, 135, 134, 133, 132, 131, 130, 129, 128, 127, 126, 125, 124, 123>>,
         <<145, 143, 142, 141, 140, 139, 138, 137, 136, 135, 134, 133, 132, 131, 130, 129, 128, 127>>,
         <<150, 148, 147, 146, 145, 144, 143, 142, 141, 140, 139, 138, 137, 136, 135, 134, 133, 132>>,
         <<158, 156, 155, 154, 153, 152, 151, 150, 149, 148, 147, 146, 145, 144, 143, 142, 141, 140>>,
         <<165, 163, 162, 161, 160, 159, 158, 157, 156, 155, 154, 153, 152, 151, 150, 149, 148, 147>>,
         <<173, 171, 170, 169, 168, 167, 166, 165, 164, 163, 162, 161, 160, 159, 158, 157, 156, 155>>,
         <<182, 180, 179, 178, 177, 176, 175, 174, 173, 172, 171, 170, 169, 168, 167, 166, 165, 164>>,
         <<190, 188, 187, 186, 185, 184, 183, 182, 181, 180, 179, 178, 177, 176, 175, 174, 173, 172>>,
         <<198, 196, 195, 194, 193, 192, 191, 190, 189, 188, 187, 186, 185, 184, 183, 182, 181, 180>>>>,
     female |->
       <<<<139, 137, 136, 135, 134, 133, 132, 131, 130, 129, 128, 127, 126, 125, 124, 123, 122, 121>>,
         <<143, 141, 140, 139, 138, 137, 136, 135, 134, 133, 132, 131, 130, 129, 128, 127, 126, 125>>,
         <<148, 146, 145, 144, 143, 142, 141, 140, 139, 138, 137, 136, 135, 134, 133, 132, 131, 130>>,
         <<156, 154, 153, 152, 151, 150, 149, 148, 147, 146, 145, 144, 143, 142, 141, 140, 139, 138>>,
         <<163, 161, 160, 159, 158, 157, 156, 155, 154, 153, 152, 151, 150, 149, 148, 147, 146, 145>>,
         <<171, 169, 168, 167, 166, 165, 164, 163, 162, 161, 160, 159, 158, 157, 156, 155, 154, 153>>,
         <<180, 178, 177, 176, 175, 174, 173, 172, 171, 170, 169, 168, 167, 166, 165, 164, 163, 162>>,
         <<188, 186, 185, 184, 183, 182, 181, 180, 179, 178, 177, 176, 175, 174, 173, 172, 171, 170>>,
         <<196, 194, 193, 192, 191, 190, 189, 188, 187, 186, 185, 184, 183, 182, 181, 180, 179, 178>>>>]

\* The band labels 'p3' .. 'p97' as numbers.
PercentileBands == <<3, 5, 10, 25, 50, 75, 90, 95, 97>>

\* The reference ages, in tenths of a year.
ReferenceAges == [i \in 1..18 |-> 10 * (i + 1)]

\* gender.lower(), on the spellings the model passes.
Lower(g) ==
    CASE g = "Male" -> "male"
      [] g = "MALE" -> "male"
      [] g = "Female" -> "female"
      [] OTHER -> g

\* gender.lower() not in ['male', 'female']
GenderRejected(g) == Lower(g) \notin {"male", "female"}

\* Mutant of AgeRejected: the upper limit is 20 instead of 19.
AgeRejectedUpTo20(age) == age < 20 \/ age > 200

\* age_years < 2 or age_years > 19
AgeRejected(age) == age < 20 \/ age > 190

\* Mutant of AgeIndex: the first knot at or above the age instead of the nearest.
AgeIndexCeiling(age) ==
    IF \E i \in 1..18 : ReferenceAges[i] >= age
    THEN CHOOSE i \in 1..18 :
             /\ ReferenceAges[i] >= age
             /\ \A j \in 1..(i - 1) : ReferenceAges[j] < age
    ELSE 18

\* np.argmin(np.abs(ages - age_years)): the first index of the smallest difference.
AgeIndex(age) ==
    CHOOSE i \in 1..18 :
        /\ \A j \in 1..18 : Abs(ReferenceAges[i] - age) <= Abs(ReferenceAges[j] - age)
        /\ \A j \in 1..(i - 1) : Abs(ReferenceAges[j] - age) > Abs(ReferenceAges[i] - age)

\* bmi_values: the nine band thresholds of the knot.
BmiValues(g, idx) == [k \in 1..9 |-> BMI_REFERENCE_DATA[g][k][idx]]

\* Below the 3rd percentile: 3.0 * (bmi / bmi_values[0]), as a fraction.
PercentileBelowP3(bmi, b) == <<3 * bmi, b[1]>>

\* Mutant of PercentileAboveP97: the offset 97 is left out.
PercentileAboveP97NoOffset(bmi, b) == <<3 * (bmi - b[9]), b[9]>>

\* Above the 97th percentile: 97.0 + (3.0 * (bmi - bmi_values[-1]) / bmi_values[-1]).
PercentileAboveP97(bmi, b) == <<97 * b[9] + 3 * (bmi - b[9]), b[9]>>

\* The percentile as the fraction <<numerator, denominator>>, denominator > 0.
Percentile(bmi, b) ==
    IF bmi <= b[1] THEN PercentileBelowP3(bmi, b)
    ELSE IF bmi >= b[9] THEN PercentileAboveP97(bmi, b)
    ELSE IF \E i \in 1..8 : b[i] <= bmi /\ bmi <= b[i + 1]
         THEN LET i == CHOOSE k \in 1..8 :
                          /\ b[k] <= bmi /\ bmi <= b[k + 1]
                          /\ \A j \in 1..(k - 1) : ~(b[j] <= bmi /\ bmi <= b[j + 1])
                  p1 == PercentileBands[i]
                  p2 == PercentileBands[i + 1]
              IN  <<p1 * (b[i + 1] - b[i]) + (p2 - p1) * (bmi - b[i]), b[i + 1] - b[i]>>
    ELSE <<50, 1>>

\* |quantile| of the standard normal, in hundredths, at the knots q (in tenths of a
\* percent) of [0, 50]; the entry for 0 is the expected minimum of 10000 draws.
QuantileTable ==
    <<<<0, 385>>, <<1, 309>>, <<5, 258>>, <<10, 233>>, <<20, 205>>, <<30, 188>>,
      <<50, 164>>, <<70, 148>>, <<100, 128>>, <<150, 104>>, <<200, 84>>, <<250, 67>>,
      <<300, 52>>, <<400, 25>>, <<500, 0>>>>

\* The table read at q = qn / qd percent, 0 <= q <= 50, linearly between its knots.
QuantileMagnitude(qn, qd) ==
    IF 10 * qn >= 500 * qd THEN 0
    ELSE LET i == CHOOSE k \in 1..(Len(QuantileTable) - 1) :
                      /\ QuantileTable[k][1] * qd <= 10 * qn
                      /\ 10 * qn < QuantileTable[k + 1][1] * qd
             lo == QuantileTable[i]
             hi == QuantileTable[i + 1]
         IN  lo[2] - ((lo[2] - hi[2]) * (10 * qn - lo[1] * qd)) \div ((hi[1] - lo[1]) * qd)

\* np.percentile(np.random.standard_normal(10000), q): the quantiles of a fresh random
\* sample, which scatter around that of the distribution.  q is qn / qd in [0, 100].
SampleQuantiles(qn, qd) ==
    LET base == IF 2 * qn <= 100 * qd THEN 0 - QuantileMagnitude(qn, qd)
                ELSE QuantileMagnitude(100 * qd - qn, qd)
    IN  {base + d : d \in {0 - 3, 0, 3}}

\* The z-scores the last lines of the estimator may return for a percentile.
ZScores(pn, pd) ==
    IF 2 * pn <= 100 * pd
    THEN {0 - Abs(x) : x \in SampleQuantiles(pn, pd)}
    ELSE {Abs(x) : x \in SampleQuantiles(100 * pd - pn, pd)}

\* np.percentile raises ValueError for q outside [0, 100].
QuantileRaises(pn, pd) ==
    IF 2 * pn <= 100 * pd THEN pn < 0 ELSE 100 * pd - pn < 0

\* calculate_bmi_percentile_and_zscore: the set of its possible outcomes.
EstimatorOutcomes(a) ==
    IF GenderRejected(a.gender) \/ AgeRejected(a.age)
    THEN {[status |-> "rejected", pnum |-> 0, pden |-> 1, z |-> 0]}
    ELSE LET b == BmiValues(Lower(a.gender), AgeIndex(a.age))
             pct == Percentile(a.bmi, b)
         IN  IF QuantileRaises(pct[1], pct[2])
             THEN {[status |-> "raised", pnum |-> pct[1], pden |-> pct[2], z |-> 0]}
             ELSE {[status |-> "ok", pnum |-> pct[1], pden |-> pct[2], z |-> z] :
                       z \in ZScores(pct[1], pct[2])}

\* The arguments the estimator is called with: ages (tenths) inside, at the edges of
\* and outside [2, 19]; BMIs (tenths) from far below the third to far above the 97th
\* percentile; the spellings of gender.
WhoAges == {0 - 10, 0, 19, 20, 24, 25, 80, 145, 190, 191, 195, 200, 300}
WhoBmis == {0 - 10, 0, 100, 134, 140, 158, 165, 191, 250, 400}
WhoGenders == {"male", "female", "Male", "MALE", "Female", "other", ""}
WhoInputs == [status : {"args"}, age : WhoAges, bmi : WhoBmis, gender : WhoGenders]

WhoInit ==
    /\ ClassifierIdle
    /\ RiskIdle /\ LlmIdle /\ ChatIdle
    /\ whoIn \in WhoInputs /\ whoOut = NoWho /\ whoPrev = NoWho /\ catOut = NoWho
    /\ routeOut = NoWho

\* The call of calculate_bmi_percentile_and_zscore.
WhoCall ==
    /\ whoIn.status = "args"
    /\ whoOut.status = "none"
    /\ catOut.status = "none"
    /\ routeOut.status = "none"
    /\ whoOut' \in EstimatorOutcomes(whoIn)
    /\ UNCHANGED <<classifierVars, riskVars, whoIn, whoPrev, catOut, routeOut, llmVars,
                   chatVars>>

\* A second call of calculate_bmi_percentile_and_zscore for the same child (age and
\* gender) with the same or another bmi; whoPrev keeps the first call.
WhoCallAgain ==
    /\ whoIn.status = "args"
    /\ whoOut.status # "none"
    /\ whoPrev.status = "none"
    /\ \E bmi \in WhoBmis :
           /\ whoIn' = [whoIn EXCEPT !.bmi = bmi]
           /\ whoOut' \in EstimatorOutcomes(whoIn')
    /\ whoPrev' = [status |-> whoOut.status, bmi |-> whoIn.bmi,
                   pnum |-> whoOut.pnum, pden |-> whoOut.pden, z |-> whoOut.z]
    /\ UNCHANGED <<classifierVars, riskVars, catOut, routeOut, llmVars, chatVars>>

\* Mutant of CategoryOfPercentile: Obese only above the 97th percentile.
CategoryOfPercentileObeseAbove97(pn, pd) ==
    IF pn < 5 * pd THEN "Underweight"
    ELSE IF pn < 85 * pd THEN "Normal"
    ELSE IF pn <= 97 * pd THEN "Overweight"
    ELSE "Obese"

\* WHO child/adolescent categories of the percentile pn / pd.
CategoryOfPercentile(pn, pd) ==
    IF pn < 5 * pd THEN "Underweight"
    ELSE IF pn < 85 * pd THEN "Normal"
    ELSE IF pn < 97 * pd THEN "Overweight"
    ELSE "Obese"

\* Mutant of AdultCategory: a bmi of exactly 25 still counts as Normal.
AdultCategoryNormalUpTo25(bmi) ==
    IF bmi < 185 THEN "Underweight"
    ELSE IF bmi <= 250 THEN "Normal"
    ELSE IF bmi < 300 THEN "Overweight"
    ELSE "Obese"

\* The adult standards of the except branch; bmi in tenths.
AdultCategory(bmi) ==
    IF bmi < 185 THEN "Underweight"
    ELSE IF bmi < 250 THEN "Normal"
    ELSE IF bmi < 300 THEN "Overweight"
    ELSE "Obese"

\* get_bmi_category, given the outcome o of its call of the estimator: the try branch
\* when that call returned, the bare except branch when it raised.  The result keeps
\* the arguments, the estimator's outcome and the branch taken.
GetBmiCategory(a, o) ==
    [status |-> "ok", bmi |-> a.bmi, age |-> a.age, gender |-> a.gender, inner |-> o,
     branch |-> IF o.status = "ok" THEN "try" ELSE "except",
     category |-> IF o.status = "ok" THEN CategoryOfPercentile(o.pnum, o.pden)
                  ELSE AdultCategory(a.bmi)]

\* The call of get_bmi_category, on the arguments as drawn.
CategoryCall ==
    /\ whoIn.status = "args"
    /\ whoOut.status = "none"
    /\ catOut.status = "none"
    /\ routeOut.status = "none"
    /\ \E o \in EstimatorOutcomes(whoIn) : catOut' = GetBmiCategory(whoIn, o)
    /\ UNCHANGED <<classifierVars, riskVars, whoIn, whoOut, whoPrev, routeOut, llmVars,
                   chatVars>>

\* predict() lets through an age within [0, 18]; the bmi of a height within [30, 220]
\* and a weight within [1, 200] is positive.  Age and bmi in tenths.
RouteAccepts(a) == ~(a.age < 0 \/ a.age > 180) /\ a.bmi > 0

\* The try block of predict(): the estimator returned o, and get_bmi_category, whose
\* own call of the estimator returned o2, gives the category.
RouteStandards(a, o, o2) ==
    [status |-> "ok", fallback |-> FALSE, pnum |-> o.pnum, pden |-> o.pden, z |-> o.z,
     bmi_category |-> GetBmiCategory(a, o2).category]

\* The except block of predict(): bmi_percentile = 50.0, bmi_z_score = 0.0,
\* bmi_category = "Normal".
RouteFallback ==
    [status |-> "ok", fallback |-> TRUE, pnum |-> 50, pden |-> 1, z |-> 0,
     bmi_category |-> "Normal"]

\* The WHO standards step of predict(), on the arguments as drawn.
PredictStandards ==
    /\ whoIn.status = "args"
    /\ RouteAccepts(whoIn)
    /\ whoOut.status = "none"
    /\ catOut.status = "none"
    /\ routeOut.status = "none"
    /\ \E o \in EstimatorOutcomes(whoIn) :
           IF o.status = "ok"
           THEN \E o2 \in EstimatorOutcomes(whoIn) :
                    routeOut' = RouteStandards(whoIn, o, o2)
           ELSE routeOut' = RouteFallback
    /\ UNCHANGED <<classifierVars, riskVars, whoIn, whoOut, whoPrev, catOut, llmVars,
                   chatVars>>

WhoNext == WhoCall \/ WhoCallAgain \/ CategoryCall \/ PredictStandards

SpecWHO == WhoInit /\ [][WhoNext]_vars

Spec == Init /\ [][Next]_vars

(***************************************************************************)
(* The report data the chat functions are given: report_data is None, or   *)
(* the dictionary {'report': ..., 'patient': ...} the route builds from a  *)
(* stored report, or that dictionary with both inner dictionaries empty.   *)
(* Percentiles and z-scores are in hundredths, the bmi in tenths.          *)
(***************************************************************************)
ReportA ==
    [present |-> TRUE, filled |-> TRUE,
     child_name |-> "Asha", age_months |-> 96, bmi |-> 165,
     nutrition_status |-> "Normal", bmi_category |-> "Normal",
     bmi_percentile |-> 7188, bmi_z_score |-> 58,
     malnutrition_risk_score |-> 6, risk_level |-> "Low",
     skin_pred |-> "healthy_skin", nail_pred |-> "healthy_nails",
     dietary_recommendations |-> "Maintain balanced nutrition",
     lifestyle_recommendations |-> "Maintain healthy habits",
     hydration_tips |-> "Maintain good hydration habits",
     professional_consultation |-> FALSE]

ReportB ==
    [present |-> TRUE, filled |-> TRUE,
     child_name |-> "Ravi", age_months |-> 40, bmi |-> 120,
     nutrition_status |-> "At Risk", bmi_category |-> "Underweight",
     bmi_percentile |-> 255, bmi_z_score |-> 0 - 195,
     malnutrition_risk_score |-> 78, risk_level |-> "Critical",
     skin_pred |-> "unhealthy_skin", nail_pred |-> "healthy_nails",
     dietary_recommendations |-> "Increase caloric intake",
     lifestyle_recommendations |-> "Immediate attention required",
     hydration_tips |-> "Ensure adequate hydration",
     professional_consultation |-> TRUE]

\* {'report': {}, 'patient': {}}: a dictionary that is truthy but holds no value.
ReportEmpty == [present |-> TRUE, filled |-> FALSE]

ReportData == {NoReport, ReportA, ReportB, ReportEmpty}

(***************************************************************************)
(* app/predict/llm_provider.py                                             *)
(***************************************************************************)
\* Python's None where a text is expected.
NoText == "<None>"

\* age_years = age_months / 12.0 printed with one decimal, in tenths.
AgeTenths(age_months) == (age_months * 10 + 6) \div 12

\* A number in hundredths printed with one decimal, in tenths.
OneDecimal(h) == IF h >= 0 THEN (h + 5) \div 10 ELSE 0 - ((5 - h) \div 10)

\* _format_context: the eight lines, by their values.
FormatContext(r) ==
    IF r.filled
    THEN [child |-> r.child_name, age |-> AgeTenths(r.age_months), bmi |-> r.bmi,
          bmi_cat |-> r.bmi_category,
          percentile |-> [na |-> FALSE, value |-> OneDecimal(r.bmi_percentile)],
          z |-> [na |-> FALSE, value |-> r.bmi_z_score],
          skin |-> r.skin_pred, nails |-> r.nail_pred, risk_level |-> r.risk_level]
    ELSE [child |-> "the child", age |-> 0, bmi |-> 0, bmi_cat |-> "Unknown",
          percentile |-> [na |-> TRUE], z |-> [na |-> TRUE],
          skin |-> "unknown", nails |-> "unknown", risk_level |-> "Unknown"]

\* What a generator meets: the package cannot be imported, the API key is not set,
\* the call raises, the reply has no content (Gemini: no text and no candidate), the
\* reply is blank, or the reply is a text.
GeneratorEnvs == {"import_error", "no_key", "call_raises", "no_content", "blank", "text"}

\* _openai_generate / _gemini_generate: None from the except branch and the key
\* test, otherwise the stripped reply.
Generate(env, reply) ==
    CASE env \in {"import_error", "no_key", "call_raises"} -> NoText
      [] env \in {"no_content", "blank"} -> ""
      [] OTHER -> reply

OpenAiGenerate(env) == Generate(env, "OpenAI reply")
GeminiGenerate(env) == Generate(env, "Gemini reply")

\* Mutant of Truthy: the test is 'text is not None'.
TruthyIsNotNone(text) == text # NoText

\* The truth value of an Optional[str]: neither None nor empty.
Truthy(text) == text # NoText /\ text # ""

\* The safe fallback.
CannedReply == "I can explain the report and offer general tips."

\* generate_chat_response; the result keeps the generators tried, in order.
GenerateChatResponse(a) ==
    LET context == IF a.report_data.present
                   THEN [none |-> FALSE, lines |-> FormatContext(a.report_data)]
                   ELSE [none |-> TRUE]
        first == OpenAiGenerate(a.openai)
        second == GeminiGenerate(a.gemini)
        text == IF Truthy(first) THEN first ELSE second
    IN  [status |-> "ok", context |-> context,
         tried |-> IF Truthy(first) THEN <<"openai">> ELSE <<"openai", "gemini">>,
         text |-> IF Truthy(text) THEN text ELSE CannedReply]

\* The arguments of generate_chat_response and the state of the two capabilities.
LlmInputs ==
    [status : {"args"}, user_message : {"", "Explain the report"},
     report_data : ReportData, openai : GeneratorEnvs, gemini : GeneratorEnvs]

LlmInit ==
    /\ ClassifierIdle
    /\ RiskIdle /\ WhoIdle /\ ChatIdle
    /\ llmIn \in LlmInputs /\ llmOut = NoLlm

\* The call of generate_chat_response.
LlmCall ==
    /\ llmIn.status = "args"
    /\ llmOut.status = "none"
    /\ llmOut' = GenerateChatResponse(llmIn)
    /\ UNCHANGED <<classifierVars, riskVars, whoVars, llmIn, chatVars>>

LlmNext == LlmCall

SpecLLM == LlmInit /\ [][LlmNext]_vars

(***************************************************************************)
(* app/predict/chatbot.py: MalnutritionChatbot                             *)
(***************************************************************************)
\* The messages users send.
Messages ==
    {"Hello", "Explain the report", "Is the BMI a risk?", "Is the risk level serious?",
     "this weight", "Any advice?", "Should we see a doctor?", "Healthy food", "???"}

\* user_message.lower()
LowerMessage(message) ==
    CASE message = "Hello" -> "hello"
      [] message = "Explain the report" -> "explain the report"
      [] message = "Is the BMI a risk?" -> "is the bmi a risk?"
      [] message = "Is the risk level serious?" -> "is the risk level serious?"
      [] message = "Any advice?" -> "any advice?"
      [] message = "Should we see a doctor?" -> "should we see a doctor?"
      [] message = "Healthy food" -> "healthy food"
      [] OTHER -> message

\* The keyword groups of _generate_response, in the order they are tested.
KeywordGroups ==
    <<[handler |-> "greeting", words |-> {"hello", "hi", "hey", "start"}],
      [handler |-> "explain_report",
       words |-> {"explain", "what does", "mean", "understand", "report"}],
      [handler |-> "explain_bmi",
       words |-> {"bmi", "weight", "height", "percentile", "z-score"}],
      [handler |-> "explain_risk",
       words |-> {"risk", "dangerous", "serious", "critical", "level"}],
      [handler |-> "recommendations",
       words |-> {"recommend", "advice", "what should", "help", "improve"}],
      [handler |-> "consultation",
       words |-> {"doctor", "hospital", "professional", "consult", "medical"}],
      [handler |-> "nutrition",
       words |-> {"nutrition", "food", "diet", "healthy", "eating"}]>>

\* word in message: the keywords that are substrings of a lower-cased message.
KeywordsIn(message) ==
    CASE message = "hello" -> {"hello"}
      [] message = "explain the report" -> {"explain", "report"}
      [] message = "is the bmi a risk?" -> {"bmi", "risk"}
      [] message = "is the risk level serious?" -> {"risk", "serious", "level"}
      [] message = "this weight" -> {"hi", "weight"}
      [] message = "any advice?" -> {"advice"}
      [] message = "should we see a doctor?" -> {"doctor"}
      [] message = "healthy food" -> {"healthy", "food"}
      [] OTHER -> {}

\* any(word in message for word in [...])
AnyWordIn(words, message) == words \cap KeywordsIn(message) # {}

\* Mutant of Dispatch: the last group that matches wins.
DispatchLastMatch(message) ==
    IF \E i \in 1..Len(KeywordGroups) : AnyWordIn(KeywordGroups[i].words, message)
    THEN LET i == CHOOSE k \in 1..Len(KeywordGroups) :
                      /\ AnyWordIn(KeywordGroups[k].words, message)
                      /\ \A j \in (k + 1)..Len(KeywordGroups) :
                             ~AnyWordIn(KeywordGroups[j].words, message)
         IN  KeywordGroups[i].handler
    ELSE "default"

\* The handler _generate_response dispatches a lower-cased message to.
Dispatch(message) ==
    IF \E i \in 1..Len(KeywordGroups) : AnyWordIn(KeywordGroups[i].words, message)
    THEN LET i == CHOOSE k \in 1..Len(KeywordGroups) :
                      /\ AnyWordIn(KeywordGroups[k].words, message)
                      /\ \A j \in 1..(k - 1) : ~AnyWordIn(KeywordGroups[j].words, message)
         IN  KeywordGroups[i].handler
    ELSE "default"

\* The values the handlers read from self.user_context, with the defaults of their
\* .get calls where the inner dictionaries are empty.
ContextValues(ctx) ==
    IF ctx.filled THEN ctx
    ELSE [present |-> TRUE, filled |-> FALSE,
          child_name |-> "your child", age_months |-> 0, bmi |-> 0,
          nutrition_status |-> "Unknown", bmi_category |-> "Unknown",
          bmi_percentile |-> 0, bmi_z_score |-> 0,
          malnutrition_risk_score |-> 0, risk_level |-> "Unknown",
          skin_pred |-> "Unknown", nail_pred |-> "Unknown",
          dietary_recommendations |-> "", lifestyle_recommendations |-> "",
          hydration_tips |-> "", professional_consultation |-> FALSE]

\* _explain_report
ExplainReport(ctx) ==
    IF ~ctx.present
    THEN [handler |-> "explain_report", text |-> "I don't have access to a specific report yet."]
    ELSE LET v == ContextValues(ctx)
         IN  [handler |-> "explain_report", text |-> "Let me explain the nutrition report",
              child_name |-> v.child_name,
              status |-> IF v.nutrition_status = "Normal" THEN "normal nutrition status"
                         ELSE v.nutrition_status,
              bmi |-> v.bmi, bmi_category |-> v.bmi_category,
              age |-> AgeTenths(v.age_months),
              phase |-> IF v.age_months < 60 THEN "critical growth period"
                        ELSE IF v.age_months < 144 THEN "school-age growth phase"
                        ELSE "adolescence"]

\* _explain_bmi
ExplainBmi(ctx) ==
    IF ~ctx.present
    THEN [handler |-> "explain_bmi", text |-> "I need to see a report to explain BMI details."]
    ELSE LET v == ContextValues(ctx)
             a == Abs(v.bmi_z_score)
         IN  [handler |-> "explain_bmi", text |-> "Let me explain the BMI measurements",
              child_name |-> v.child_name, bmi |-> v.bmi,
              percentile |-> OneDecimal(v.bmi_percentile),
              percentile_text |-> IF v.bmi_percentile < 500 THEN "significant underweight"
                                  ELSE IF v.bmi_percentile < 2500 THEN "mild underweight"
                                  ELSE IF v.bmi_percentile < 7500 THEN "normal range"
                                  ELSE IF v.bmi_percentile < 9500 THEN "overweight"
                                  ELSE "obesity",
              z |-> v.bmi_z_score,
              z_text |-> IF a < 100 THEN "within normal range"
                         ELSE IF a < 200 THEN "moderately outside normal range"
                         ELSE "significantly outside normal range",
              bmi_category |-> v.bmi_category]

\* _explain_risk; where the report holds no percentile it reads 50.
ExplainRisk(ctx) ==
    IF ~ctx.present
    THEN [handler |-> "explain_risk", text |-> "I need to see a report to explain risk levels."]
    ELSE LET v == ContextValues(ctx)
             percentile == IF ctx.filled THEN v.bmi_percentile ELSE 5000
         IN  [handler |-> "explain_risk", text |-> "Let me explain the risk assessment",
              risk_score |-> v.malnutrition_risk_score, risk_level |-> v.risk_level,
              skin |-> v.skin_pred = "unhealthy_skin",
              nails |-> v.nail_pred = "unhealthy_nails",
              bmi_outside |-> percentile < 1000 \/ percentile > 9000]

\* _provide_recommendations
ProvideRecommendations(ctx) ==
    IF ~ctx.present
    THEN [handler |-> "recommendations",
          text |-> "I need to see a report to provide personalized recommendations."]
    ELSE LET v == ContextValues(ctx)
         IN  [handler |-> "recommendations", text |-> "Here are personalized recommendations",
              dietary |-> v.dietary_recommendations,
              lifestyle |-> v.lifestyle_recommendations,
              hydration |-> v.hydration_tips,
              consultation |-> v.professional_consultation]

\* The four replies _get_default_response chooses from at random.
DefaultResponses ==
    {"I'm not sure I understood that.", "I can help explain the report",
     "Try asking me to 'explain the report'", "I'm here to help!"}

\* _generate_response: the responses it may return for a lower-cased message with
\* self.user_context = ctx (one, except where random.choice picks).
GenerateResponse(message, ctx) ==
    LET handler == Dispatch(message)
    IN  CASE handler = "greeting" -> {[handler |-> "greeting", text |-> "Great to see you!"]}
          [] handler = "explain_report" -> {ExplainReport(ctx)}
          [] handler = "explain_bmi" -> {ExplainBmi(ctx)}
          [] handler = "explain_risk" -> {ExplainRisk(ctx)}
          [] handler = "recommendations" -> {ProvideRecommendations(ctx)}
          [] handler = "consultation" ->
                 {[handler |-> "consultation",
                   text |-> "When to Consult Healthcare Professionals"]}
          [] handler = "nutrition" ->
                 {[handler |-> "nutrition",
                   text |-> "General Nutrition Guidelines for Children"]}
          [] OTHER -> {[handler |-> "default", text |-> t] : t \in DefaultResponses}

\* add_to_history; the timestamp is left out.
AddToHistory(history, message, is_user) ==
    Append(history, [message |-> message, is_user |-> is_user])

\* self.user_context after 'if report_data: self.user_context = report_data'.
StoredContext(ctx, report_data) == IF report_data.present THEN report_data ELSE ctx

\* process_message
ProcessMessage(user_message, report_data) ==
    /\ Len(conversation_history) + 2 <= MaxHistory
    /\ user_context' = StoredContext(user_context, report_data)
    /\ \E response \in GenerateResponse(LowerMessage(user_message), user_context') :
           /\ conversation_history' =
                  AddToHistory(AddToHistory(conversation_history, user_message, TRUE),
                               response, FALSE)
           /\ chatOut' = [status |-> "ok", user_message |-> user_message,
                          report_data |-> report_data, response |-> response]
    /\ UNCHANGED <<classifierVars, riskVars, whoVars, llmVars>>

\* get_greeting
GetGreeting ==
    /\ Len(conversation_history) + 1 <= MaxHistory
    /\ conversation_history' =
           AddToHistory(conversation_history,
                        [handler |-> "get_greeting", text |-> "Hello! I'm your NutriScan Assistant."],
                        FALSE)
    /\ UNCHANGED <<classifierVars, riskVars, whoVars, llmVars, user_context, chatOut>>

\* clear_history
ClearHistory ==
    /\ conversation_history' = <<>>
    /\ user_context' = NoReport
    /\ UNCHANGED <<classifierVars, riskVars, whoVars, llmVars, chatOut>>

ChatInit ==
    /\ ClassifierIdle
    /\ RiskIdle /\ WhoIdle /\ LlmIdle
    /\ ChatIdle

ChatNext ==
    \/ \E user_message \in Messages, report_data \in ReportData :
           ProcessMessage(user_message, report_data)
    \/ GetGreeting
    \/ ClearHistory

SpecChat == ChatInit /\ [][ChatNext]_vars

(***************************************************************************)
(* Claims about app/predict/model.py, checked under Spec.                  *)
(***************************************************************************)
\* The threads inside _compute_centroids.
Computing == {t \in Threads : pc[t] \in {"load", "writeNail", "writeSkin", "writeFlag"}}

\* The vocabulary of a body part.
Vocabulary(p) == {PartClasses(p)[i] : i \in 1..2}

\* The reference collection holds no image for body part p.
NoImages(p) == \A c \in Vocabulary(p) : dataset[c] = <<>>

\* C2: with N threads calling predict_* before any initialisation, _compute_centroids
\* is executed exactly once in total (never a second time, and once before any caller
\* gets to its classification), and at most one thread is inside it at any time.
C2_ComputeExactlyOnce ==
    /\ computeCount <= 1
    /\ Cardinality(Computing) <= 1
    /\ \A t \in Threads : pc[t] = "predict" => computeCount = 1

\* C3: no caller gets past _ensure_initialized to choose its classification path
\* while the initialising thread still has writes to make (nail map, skin map,
\* fallback flag), so every caller reads the flag the initialisation decided.
C3_CallersWaitForAllWrites ==
    \A t \in Threads :
        pc[t] = "predict" =>
            /\ Writing = {}
            /\ useHeuristicFallback = FallbackFlag(nailMap, skinMap)

\* C4: once centroid initialisation has raised, the process is in permanent heuristic
\* fallback: the call that hit the error and every later call return a heuristic
\* classification, and _compute_centroids is not entered again.
C4_RaisedInitIsPermanentFallback ==
    loadFailures > 0 =>
        /\ lastReturn.status = "ok"
        /\ lastReturn.path = "heuristic"
        /\ computeCount = 1

\* C5: after initialisation predict_skin (predict_nail) takes the heuristic path if
\* and only if the skin (nail) map holds no centroid, whatever the other map holds.
C5_FallbackIsPerBodyPart ==
    (lastReturn.cached /\ lastReturn.path \in {"heuristic", "centroid"}) =>
        (lastReturn.path = "heuristic" <=> ~HasValidCentroids(PartMap(lastReturn.part)))

\* C6: predict_* never raises for a decodable image: the only call that may end in
\* an exception is one that read an undecodable image; a failure of the
\* initialisation or of the feature extraction ends in the heuristic's result.
C6_NeverRaisesForDecodableImage ==
    lastReturn.status = "raised" => (lastReturn.path # "init" /\ ~lastReturn.img.dec)

\* C7: every result of predict_skin / predict_nail carries a label of its body
\* part's two-class vocabulary and a confidence within [0.05, 0.99], on the
\* nearest-centroid path and on the heuristic path.
C7_LabelAndConfidenceInRange ==
    lastReturn.status = "ok" =>
        /\ lastReturn.label \in Vocabulary(lastReturn.part)
        /\ 50 <= lastReturn.conf /\ lastReturn.conf <= 990

\* C7, witness: a nearest-centroid result whose confidence is the lower clamp.
C7_Witness ==
    lastReturn.status = "ok" /\ lastReturn.path = "centroid" /\ lastReturn.conf = 50

C1_RiskScoreWithinBounds ==
    riskOut.status = "ok" => (0 <= riskOut.risk_score /\ riskOut.risk_score <= 100)

\* C16: professional_consultation is true if and only if risk_score > 40 or
\* bmi_category is Underweight or Obese: true for Underweight and Obese whatever the
\* risk_score, true for every risk_score above 40 whatever the category.
C16_ProfessionalConsultation ==
    recOut.status = "ok" =>
        /\ recOut.professional_consultation <=>
               (recOut.risk_score > 40 \/ recOut.bmi_category \in {"Underweight", "Obese"})
        /\ recOut.bmi_category \in {"Underweight", "Obese"} => recOut.professional_consultation
        /\ recOut.risk_score > 40 => recOut.professional_consultation

\* C16, witness: an Obese child with a risk_score of at most 40 was referred.
C16_Witness ==
    /\ recOut.status = "ok" /\ recOut.bmi_category = "Obese"
    /\ recOut.risk_score <= 40 /\ recOut.professional_consultation

\* The arguments of the golden scenario of test_enhanced_features.py.
GoldenScenario ==
    [status |-> "args", pnum |-> 1500, pden |-> 100, z |-> 0 - 120,
     skin |-> "unhealthy_skin", nail |-> "healthy_nails",
     skinConf |-> 700, nailConf |-> 800, age |-> 80]

\* C17: the golden scenario (percentile 15.0, z-score -1.2, unhealthy skin at 0.7,
\* healthy nails at 0.8, age 8.0) returns risk_level Medium, a risk_score in [20, 40).
C17_GoldenScenarioIsMedium ==
    (riskIn = GoldenScenario /\ riskOut.status = "ok") =>
        /\ riskOut.risk_level = "Medium"
        /\ 20 <= riskOut.risk_score /\ riskOut.risk_score < 40

\* C17, witness: the golden scenario has been scored, at 36.
C17_Witness ==
    riskIn = GoldenScenario /\ riskOut.status = "ok" /\ riskOut.risk_score = 36

\* The points of the one BMI-percentile band the percentile pn / pd lies in.
BmiBandPoints(pn, pd) ==
    CASE pn < 5 * pd -> 40
      [] 5 * pd <= pn /\ pn < 10 * pd -> 30
      [] 10 * pd <= pn /\ pn < 25 * pd -> 20
      [] 25 * pd <= pn /\ pn < 85 * pd -> 0
      [] 85 * pd <= pn /\ pn < 97 * pd -> 25
      [] 97 * pd <= pn -> 35

\* The points of the one z-score band |z| lies in; z in hundredths.
ZBandPoints(z) ==
    LET a == IF z < 0 THEN 0 - z ELSE z
    IN  CASE a > 200 -> 20
          [] 150 < a /\ a <= 200 -> 15
          [] 100 < a /\ a <= 150 -> 10
          [] a <= 100 -> 0

\* C20: before the age adjustment the score is the sum of four independent terms:
\* the points of the one BMI-percentile band that fires (< 5: 40, < 10: 30, < 25: 20,
\* >= 97: 35, >= 85: 25, otherwise 0), the points of the one z-score band that fires
\* (|z| > 2.0: 20, > 1.5: 15, > 1.0: 10, otherwise 0), the skin term and the nail term.
C20_SumOfIndependentTerms ==
    riskOut.status = "ok" =>
        LET sum == BmiBandPoints(riskIn.pnum, riskIn.pden) + ZBandPoints(riskIn.z)
                   + HealthTerm(riskIn.skin, riskIn.skinConf)
                   + HealthTerm(riskIn.nail, riskIn.nailConf)
        IN  /\ riskOut.risk_score = CapScore(AgeAdjusted(sum, riskIn.age))
            /\ (50 <= riskIn.age /\ riskIn.age <= 150) => riskOut.risk_score = sum

\* C20, witness: an obese percentile (>= 97) with |z| in (1.5, 2.0] and full
\* confidence in two healthy labels scored 35 + 15 at an age without adjustment.
C20_Witness ==
    /\ riskOut.status = "ok" /\ riskIn.age = 80
    /\ riskIn.pnum = 9700 /\ riskIn.z = 200
    /\ riskIn.skinConf = 1000 /\ riskIn.nailConf = 1000
    /\ riskOut.risk_score = 50

\* n / d (d > 0) rounded to the nearest integer, a half to the even neighbour.
RoundNearest(n, d) ==
    LET q == n \div d
        r == n - q * d
    IN  IF 2 * r < d THEN q
        ELSE IF 2 * r > d THEN q + 1
        ELSE IF q % 2 = 0 THEN q ELSE q + 1

\* round(20 * (1 - confidence)) for an unhealthy label, round(5 * (1 - confidence))
\* otherwise; the confidence in thousandths.
RoundedHealthTerm(label, conf) ==
    IF label \in {"unhealthy_skin", "unhealthy_nails"}
    THEN RoundNearest(20 * (1000 - conf), 1000)
    ELSE RoundNearest(5 * (1000 - conf), 1000)

\* C21: the skin term added to the score is round(20 * (1 - skin_confidence)) for an
\* unhealthy skin label and round(5 * (1 - skin_confidence)) otherwise, and the nail
\* term follows the same rule with nail_confidence, independently of the skin term.
C21_HealthTermsRounded ==
    riskOut.status = "ok" =>
        riskOut.risk_score =
            CapScore(AgeAdjusted(BmiTerm(riskIn.pnum, riskIn.pden) + ZScoreTerm(riskIn.z)
                                 + RoundedHealthTerm(riskIn.skin, riskIn.skinConf)
                                 + RoundedHealthTerm(riskIn.nail, riskIn.nailConf),
                                 riskIn.age))

\* The sum of the four additive terms of the arguments a.
AdditiveTerms(a) ==
    BmiTerm(a.pnum, a.pden) + ZScoreTerm(a.z)
    + HealthTerm(a.skin, a.skinConf) + HealthTerm(a.nail, a.nailConf)

\* Ten times the age factor: 12 below 5 years, 11 above 15, 10 otherwise.
AgeFactorTenths(age) == IF age < 50 THEN 12 ELSE IF age > 150 THEN 11 ELSE 10

\* C22, as stated: the age factor (1.2 below 5, 1.1 above 15, 1.0 otherwise, also at
\* exactly 5 and 15) is applied once to the sum of the four terms and before the
\* cap, so that risk_score = min(100, factor * sum), exactly.
C22_AgeFactorExact ==
    riskOut.status = "ok" =>
        10 * riskOut.risk_score =
            Min(1000, AgeFactorTenths(riskIn.age) * AdditiveTerms(riskIn))

\* C22, amended: risk_score = min(100, int(factor * sum)): the product is truncated
\* towards zero to an integer before the cap.
C22_AgeFactorTruncated ==
    riskOut.status = "ok" =>
        LET product == AgeFactorTenths(riskIn.age) * AdditiveTerms(riskIn)
            truncated == IF product >= 0 THEN product \div 10
                         ELSE 0 - ((0 - product) \div 10)
        IN  riskOut.risk_score = Min(100, truncated)

\* C22, witness: at an age below 5 a sum of 36 was scored 43 (36 * 1.2 = 43.2).
C22_Witness ==
    /\ riskOut.status = "ok" /\ riskIn.age = 49
    /\ AdditiveTerms(riskIn) = 36 /\ riskOut.risk_score = 43

\* The position of a tier in the order Low < Medium < High < Critical.
TierRank(level) ==
    CASE level = "Low" -> 1 [] level = "Medium" -> 2 [] level = "High" -> 3
      [] level = "Critical" -> 4

\* C23: risk_level is a function of the final capped risk_score alone: Low below 20,
\* Medium in [20, 40), High in [40, 60), Critical from 60 on; a higher score never
\* maps to a lower tier.
C23_TierOfScore ==
    riskOut.status = "ok" =>
        /\ riskOut.risk_score < 20 => riskOut.risk_level = "Low"
        /\ (20 <= riskOut.risk_score /\ riskOut.risk_score < 40) => riskOut.risk_level = "Medium"
        /\ (40 <= riskOut.risk_score /\ riskOut.risk_score < 60) => riskOut.risk_level = "High"
        /\ 60 <= riskOut.risk_score => riskOut.risk_level = "Critical"
        /\ \A lower \in 0..100 :
               lower <= riskOut.risk_score =>
                   TierRank(RiskLevel(lower)) <= TierRank(riskOut.risk_level)

\* C23, witness: a risk_score of exactly 60 was returned as Critical.
C23_Witness ==
    riskOut.status = "ok" /\ riskOut.risk_score = 60 /\ riskOut.risk_level = "Critical"

\* C24: the breakdown fields are the final total capped at each factor's ceiling:
\* bmi_risk = min(40, risk_score) and z_score_risk = skin_risk = nail_risk =
\* min(20, risk_score); each field stays within [0, its ceiling] and the three
\* 20-capped fields are equal.
C24_BreakdownIsCappedTotal ==
    riskOut.status = "ok" =>
        /\ riskOut.bmi_risk = (IF riskOut.risk_score < 40 THEN riskOut.risk_score ELSE 40)
        /\ riskOut.z_score_risk = (IF riskOut.risk_score < 20 THEN riskOut.risk_score ELSE 20)
        /\ riskOut.skin_risk = riskOut.z_score_risk
        /\ riskOut.nail_risk = riskOut.z_score_risk
        /\ 0 <= riskOut.bmi_risk /\ riskOut.bmi_risk <= 40
        /\ 0 <= riskOut.z_score_risk /\ riskOut.z_score_risk <= 20

\* C30, as stated: for every assessment whose risk_level is High or Critical,
\* generate_recommendations sets professional_consultation, whatever the bmi_category.
C30_HighRiskIsReferred ==
    (recOut.status = "ok" /\ riskOut.risk_level \in {"High", "Critical"}) =>
        recOut.professional_consultation

\* C30, amended: every Critical assessment and every High assessment with a
\* risk_score above 40 is referred whatever the bmi_category; a High assessment
\* with a risk_score of exactly 40 is referred only for Underweight or Obese.
C30_HighRiskAbove40IsReferred ==
    (recOut.status = "ok" /\ riskOut.risk_level \in {"High", "Critical"}) =>
        IF riskOut.risk_score = 40
        THEN recOut.professional_consultation
                 <=> recOut.bmi_category \in {"Underweight", "Obese"}
        ELSE recOut.professional_consultation

\* C30, witness: a High assessment scored above 40 was referred with a Normal category.
C30_Witness ==
    /\ recOut.status = "ok" /\ riskOut.risk_level = "High" /\ riskOut.risk_score > 40
    /\ recOut.bmi_category = "Normal" /\ recOut.professional_consultation

(***************************************************************************)
(* Claims about calculate_bmi_percentile_and_zscore, checked under SpecWHO.*)
(***************************************************************************)
\* The gender denotes male or female, in whatever case it is spelled.
IsMaleOrFemale(g) == g \in {"male", "female", "Male", "MALE", "Female"}

\* C10: a call whose gender is not male or female, or whose age_years is below 2 or
\* above 19, is rejected: it raises from the argument checks and yields no
\* percentile, instead of being clamped to the nearest reference age.
C10_InvalidArgumentsRejected ==
    (whoOut.status # "none" /\ (~IsMaleOrFemale(whoIn.gender) \/ whoIn.age < 20 \/ whoIn.age > 190))
        => whoOut.status = "rejected"

\* C10, witness: a call with a valid gender and age 19.5, which the nearest reference
\* age (19) would have absorbed, has been rejected.
C10_Witness ==
    whoOut.status = "rejected" /\ whoIn.age = 195 /\ whoIn.gender = "male"

\* The arguments a are valid: gender male or female, age within [2, 19].
ValidArguments(a) == IsMaleOrFemale(a.gender) /\ 20 <= a.age /\ a.age <= 190

\* The 97th-percentile threshold of the age knot selected for the arguments a.
T97(a) == BmiValues(Lower(a.gender), AgeIndex(a.age))[9]

\* C11: for valid age and gender and every bmi at or above the 97th-percentile
\* threshold t97 of the selected knot, the estimator returns (with a z-score, without
\* raising) the percentile 97 + 3 * (bmi - t97) / t97, also when that exceeds 100.
C11_ExtrapolatesAboveP97 ==
    (whoOut.status # "none" /\ ValidArguments(whoIn) /\ whoIn.bmi >= T97(whoIn)) =>
        /\ whoOut.status = "ok"
        /\ whoOut.pnum * T97(whoIn) = whoOut.pden * (97 * T97(whoIn) + 3 * (whoIn.bmi - T97(whoIn)))

\* C12: for valid age and gender the percentile is monotonically non-decreasing in
\* bmi: of two calls that returned for the same age and gender, the one with the
\* larger bmi returned a percentile at least as large, whatever branches they took.
C12_PercentileMonotoneInBmi ==
    (whoPrev.status = "ok" /\ whoOut.status = "ok" /\ whoPrev.bmi <= whoIn.bmi) =>
        whoPrev.pnum * whoOut.pden <= whoOut.pnum * whoPrev.pden

\* C12, witness: a call below the 3rd percentile was followed by a call above the
\* 97th for the same child, and both returned.
C12_Witness ==
    /\ whoPrev.status = "ok" /\ whoOut.status = "ok"
    /\ whoPrev.pnum < 3 * whoPrev.pden
    /\ whoOut.pnum > 97 * whoOut.pden

\* C13: the estimator is deterministic: two calls with the same age, bmi and gender
\* return the same percentile and the same z-score; and the z-score is <= 0 when the
\* percentile is <= 50 and >= 0 when it is above 50.
C13_EstimatorDeterministic ==
    /\ (whoPrev.status = "ok" /\ whoOut.status = "ok" /\ whoPrev.bmi = whoIn.bmi) =>
           /\ whoPrev.pnum * whoOut.pden = whoOut.pnum * whoPrev.pden
           /\ whoPrev.z = whoOut.z
    /\ whoOut.status = "ok" =>
           IF 2 * whoOut.pnum <= 100 * whoOut.pden THEN whoOut.z <= 0 ELSE whoOut.z >= 0

\* The percentile the estimator computes for the arguments a, as a fraction.
PercentileOf(a) == Percentile(a.bmi, BmiValues(Lower(a.gender), AgeIndex(a.age)))

\* C14: for valid age and gender get_bmi_category returns Underweight when the
\* percentile is below 5, Normal when it is in [5, 85), Overweight in [85, 97) and
\* Obese from 97 on; (16.5, 8, male) is Normal, (10, 8, male) Underweight and
\* (25, 8, male) Obese or Overweight.
C14_CategoryByPercentile ==
    (catOut.status # "none" /\ ValidArguments(catOut)) =>
        LET pct == PercentileOf(catOut)
            male8 == catOut.age = 80 /\ catOut.gender = "male"
        IN  /\ catOut.status = "ok"
            /\ pct[1] < 5 * pct[2] => catOut.category = "Underweight"
            /\ (5 * pct[2] <= pct[1] /\ pct[1] < 85 * pct[2]) => catOut.category = "Normal"
            /\ (85 * pct[2] <= pct[1] /\ pct[1] < 97 * pct[2]) => catOut.category = "Overweight"
            /\ 97 * pct[2] <= pct[1] => catOut.category = "Obese"
            /\ (male8 /\ catOut.bmi = 165) => catOut.category = "Normal"
            /\ (male8 /\ catOut.bmi = 100) => catOut.category = "Underweight"
            /\ (male8 /\ catOut.bmi = 250) => catOut.category \in {"Obese", "Overweight"}

\* C14, witness: the category of a bmi exactly on the 97th-percentile threshold of the
\* knot (percentile 97) was computed from the percentile, for a boy of 8.
C14_Witness ==
    /\ catOut.status = "ok" /\ catOut.branch = "try"
    /\ catOut.age = 80 /\ catOut.gender = "male" /\ catOut.bmi = 191
    /\ catOut.category = "Obese"

\* C15: get_bmi_category never raises; whenever the percentile computation failed
\* (invalid gender, age outside [2, 19], any other failure inside it) it returns the
\* adult category of the bmi (< 18.5 Underweight, < 25 Normal, < 30 Overweight,
\* otherwise Obese), and it takes that fallback only when the computation failed.
C15_CategoryNeverRaises ==
    catOut.status # "none" =>
        /\ catOut.status = "ok"
        /\ catOut.category \in {"Underweight", "Normal", "Overweight", "Obese"}
        /\ catOut.inner.status # "ok" =>
               catOut.category =
                   (IF catOut.bmi < 185 THEN "Underweight"
                    ELSE IF catOut.bmi < 250 THEN "Normal"
                    ELSE IF catOut.bmi < 300 THEN "Overweight"
                    ELSE "Obese")
        /\ catOut.branch = "except" <=> catOut.inner.status # "ok"
        /\ catOut.inner.status # "ok" <=>
               (~ValidArguments(catOut) \/ QuantileRaises(PercentileOf(catOut)[1], PercentileOf(catOut)[2]))

\* C15, witness: with an invalid gender and a bmi of exactly 25 the adult fallback
\* answered Overweight.
C15_Witness ==
    /\ catOut.status = "ok" /\ catOut.branch = "except"
    /\ catOut.gender = "other" /\ catOut.bmi = 250
    /\ catOut.category = "Overweight"

(***************************************************************************)
(* Claims about app/predict/llm_provider.py, checked under SpecLLM.        *)
(***************************************************************************)
\* The generator met with env yields no text: it is unavailable (no package, no key,
\* failing call) or its reply is empty.
YieldsNoText(env) == env # "text"

\* C18: generate_chat_response never surfaces an error and always returns non-empty
\* text: OpenAI is tried first, Gemini is tried only when OpenAI yielded no text, and
\* when neither capability is available (no key, import failure, call failure) the
\* canned reply is returned.
C18_AlwaysRepliesWithText ==
    llmOut.status # "none" =>
        /\ llmOut.status = "ok"
        /\ llmOut.text \notin {"", NoText}
        /\ llmOut.tried[1] = "openai"
        /\ Len(llmOut.tried) = 2 <=> YieldsNoText(llmIn.openai)
        /\ ~YieldsNoText(llmIn.openai) => llmOut.text = "OpenAI reply"
        /\ (YieldsNoText(llmIn.openai) /\ ~YieldsNoText(llmIn.gemini)) =>
               llmOut.text = "Gemini reply"
        /\ (YieldsNoText(llmIn.openai) /\ YieldsNoText(llmIn.gemini)) =>
               llmOut.text = CannedReply

\* C18, witness: OpenAI answered with an empty reply and the call to Gemini raised;
\* the canned reply was returned.
C18_Witness ==
    /\ llmOut.status = "ok"
    /\ llmIn.openai = "no_content" /\ llmIn.gemini = "call_raises"
    /\ llmOut.tried = <<"openai", "gemini">>
    /\ llmOut.text = CannedReply

(***************************************************************************)
(* Claims about app/predict/chatbot.py, checked under SpecChat.            *)
(***************************************************************************)
\* C19: the explainer is stateless: the response of process_message(message,
\* report_data) is one that a chatbot without any earlier call gives for that message
\* and that report_data; it does not depend on the report_data or the messages of
\* earlier calls on the same chatbot.
C19_ExplainerStateless ==
    chatOut.status = "ok" =>
        chatOut.response \in
            GenerateResponse(LowerMessage(chatOut.user_message),
                             StoredContext(NoReport, chatOut.report_data))

\* The age knots nearest to the age (two when the age lies half-way between them).
NearestKnots(age) ==
    {k \in 1..18 : \A j \in 1..18 : Abs(10 * (k + 1) - age) <= Abs(10 * (j + 1) - age)}

\* The returned percentile whoOut.pnum / whoOut.pden is what the claim states for the
\* bmi and the nine thresholds t of one knot.
PercentileAsClaimed(bmi, t) ==
    /\ bmi <= t[1] => whoOut.pnum * t[1] = 3 * bmi * whoOut.pden
    /\ (t[1] < bmi /\ bmi < t[9]) =>
           \E i \in 1..8 :
               /\ t[i] <= bmi /\ bmi <= t[i + 1]
               /\ whoOut.pnum * (t[i + 1] - t[i]) =
                      whoOut.pden * (PercentileBands[i] * (t[i + 1] - t[i])
                                     + (PercentileBands[i + 1] - PercentileBands[i])
                                       * (bmi - t[i]))
    /\ \A i \in 1..9 : bmi = t[i] => whoOut.pnum = PercentileBands[i] * whoOut.pden

\* C25: for valid inputs the estimator reads the bands of the age knot nearest to
\* age_years, returns 3 * bmi / t3 when bmi <= t3 and the linear interpolation between
\* the two adjacent bands that bracket bmi when t3 < bmi < t97; the percentile equals
\* the band label at every band threshold and the default 50 is never used.
C25_NearestKnotInterpolation ==
    (whoOut.status # "none" /\ ValidArguments(whoIn)) =>
        /\ whoOut.status # "rejected"
        /\ \E k \in NearestKnots(whoIn.age) :
               PercentileAsClaimed(whoIn.bmi,
                   [i \in 1..9 |-> BMI_REFERENCE_DATA[Lower(whoIn.gender)][i][k]])

\* C25, witness: a boy of 8 with a bmi of 14.0, between the 5th (13.8) and the 10th
\* (14.3) band, got the percentile 7.
C25_Witness ==
    /\ whoOut.status = "ok" /\ whoIn.gender = "male" /\ whoIn.age = 80
    /\ whoIn.bmi = 140 /\ whoOut.pnum = 7 * whoOut.pden

\* C29: when the estimator rejects the input of an assessment (bad gender, age
\* outside [2, 19]), predict() does not propagate the error and records the adult
\* fallback category of the bmi: below 18.5 Underweight, below 25 Normal, below 30
\* Overweight, otherwise Obese.
C29_RejectionRecordsAdultFallback ==
    (routeOut.status # "none"
     /\ (GenderRejected(whoIn.gender) \/ AgeRejected(whoIn.age))) =>
        /\ routeOut.status = "ok"
        /\ routeOut.bmi_category =
               (IF whoIn.bmi < 185 THEN "Underweight"
                ELSE IF whoIn.bmi < 250 THEN "Normal"
                ELSE IF whoIn.bmi < 300 THEN "Overweight"
                ELSE "Obese")

(***************************************************************************)
(* Claims about _nearest_centroid and _simple_hsv_heuristic, under Spec.   *)
(***************************************************************************)
\* C26: _nearest_centroid returns the class whose centroid is nearest to the feature
\* vector, skipping classes without a centroid, with the confidence
\* clamp(exp(-distance / 100), 0.05, 0.99); when two centroids are equidistant or the
\* best distance is not finite, the confidence is 0.5.
C26_NearestOrHalfOnTie ==
    (lastReturn.status = "ok" /\ lastReturn.path = "centroid") =>
        LET m == PartMap(lastReturn.part)
            f == lastReturn.img.feat
            Finite == {n \in 1..Len(m) : m[n] # None /\ Distance(f, m[n][1]) # NaN}
            Nearest == {n \in Finite :
                           \A k \in Finite : Distance(f, m[n][1]) <= Distance(f, m[k][1])}
        IN  IF Cardinality(Nearest) = 1
            THEN \E n \in Nearest :
                     /\ lastReturn.label = PartClasses(lastReturn.part)[n]
                     /\ lastReturn.conf = Max(50, Min(990, ExpMilli(Distance(f, m[n][1]))))
            ELSE lastReturn.conf = 500

\* C27: the heuristic gives unhealthy when s < 60 and v < 110, at 0.8 if s < 45 or
\* v < 90 and at 0.7 otherwise; healthy at 0.75 when s > 120 and v > 160; healthy at
\* 0.6 in every other case; and healthy at 0.5 whenever the image cannot be decoded,
\* on whichever path the decoding failure occurs.
C27_HeuristicMappingFailOpen ==
    lastReturn.path \in {"heuristic", "centroid"} =>
        LET i == lastReturn.img
            Is(h, c) == /\ lastReturn.status = "ok"
                        /\ lastReturn.label = HeuristicLabel(lastReturn.part, h)
                        /\ lastReturn.conf = c
        IN  /\ ~i.dec => Is("healthy", 500)
            /\ (i.dec /\ lastReturn.path = "heuristic") =>
                   IF i.sat < 60 /\ i.val < 110
                   THEN Is("unhealthy", IF i.sat < 45 \/ i.val < 90 THEN 800 ELSE 700)
                   ELSE IF i.sat > 120 /\ i.val > 160 THEN Is("healthy", 750)
                   ELSE Is("healthy", 600)

(***************************************************************************)
(* Claims about the dispatch of _generate_response, under SpecChat.        *)
(***************************************************************************)
\* The priority order of the explainer's handlers.
HandlerOrder ==
    <<"greeting", "explain_report", "explain_bmi", "explain_risk", "recommendations",
      "consultation", "nutrition">>

\* The lower-cased message contains a keyword of the group of handler h.
GroupMatches(h, message) ==
    \E i \in 1..Len(KeywordGroups) :
        KeywordGroups[i].handler = h /\ KeywordGroups[i].words \cap KeywordsIn(message) # {}

\* C28: the explainer tests the keyword groups greeting, report, BMI, risk,
\* recommendation, consultation, nutrition in that order against the lower-cased
\* message, answers with the handler of the first group that matches and with the
\* default handler only when none matches; a message with a BMI keyword and no
\* keyword of an earlier group gets the BMI explanation.
C28_FirstMatchDispatch ==
    chatOut.status = "ok" =>
        LET message == LowerMessage(chatOut.user_message)
            answered == chatOut.response.handler
        IN  /\ \A n \in 1..Len(HandlerOrder) :
                   (/\ GroupMatches(HandlerOrder[n], message)
                    /\ \A j \in 1..(n - 1) : ~GroupMatches(HandlerOrder[j], message))
                       => answered = HandlerOrder[n]
            /\ answered = "default" <=>
                   \A n \in 1..Len(HandlerOrder) : ~GroupMatches(HandlerOrder[n], message)
            /\ (/\ GroupMatches("explain_bmi", message)
                /\ ~GroupMatches("greeting", message)
                /\ ~GroupMatches("explain_report", message)) => answered = "explain_bmi"

\* C28, witness: a message with a BMI keyword and a risk keyword got the BMI
\* explanation.
C28_Witness ==
    /\ chatOut.status = "ok" /\ chatOut.user_message = "Is the BMI a risk?"
    /\ chatOut.response.handler = "explain_bmi"

====
